---- MODULE Spec2Model ----
(***************************************************************************)
(* TREX-IO interface of pyscf-forge (pyscf/tools/trexio.py).               *)
(*                                                                         *)
(* The container file is a key/value store: a function from the names of   *)
(* the attributes written so far to their values.  Every entry point       *)
(* (to_trexio, mol_from_trexio, scf_from_trexio, write_eri, read_eri) is   *)
(* one action that runs the whole call: it records the exception that      *)
(* ended it (err), what it returned (ret) and the container operations it  *)
(* performed in order (log).                                               *)
(*                                                                         *)
(* Indices kept in the container and in permutations are 0-based, as in    *)
(* the source; TLA+ sequences are 1-based, so element k of a numpy array   *)
(* is element k+1 of the sequence that models it.                          *)
(***************************************************************************)
EXTENDS Integers, Sequences, FiniteSets

VARIABLES
    file,   \* the container: attribute name -> value, for the attributes written
    src,    \* the object the container was written from (what to_trexio was given)
    werr,   \* the exception that ended the call that wrote it, "none" when it returned
    op,     \* the entry point called last
    ret,    \* what the last call returned ([cls |-> "None"] when it raised)
    err,    \* the exception that ended the last call, "none" when it returned
    log     \* the container operations of the last call, in order

vars == <<file, src, werr, op, ret, err, log>>

-----------------------------------------------------------------------------
(* Bounds of the model.                                                     *)

MaxAtoms == 2       \* nuclei per structure
MaxShells == 2      \* shells per structure in the shell-layout family
MaxL == 2           \* largest angular momentum of a shell
MaxPrim == 2        \* primitives per shell in the contraction family
MaxN == 3           \* orbital count of an integral tensor

-----------------------------------------------------------------------------
(* Generic helpers.                                                         *)

Range(s) == {s[i] : i \in DOMAIN s}

SeqsUpTo(S, n) == UNION {[1..k -> S] : k \in 0..n}

RECURSIVE Concat(_)
Concat(ss) == IF ss = <<>> THEN <<>> ELSE Head(ss) \o Concat(Tail(ss))

RECURSIVE Sum(_)
Sum(s) == IF s = <<>> THEN 0 ELSE Head(s) + Sum(Tail(s))

Repeat(x, n) == [k \in 1..n |-> x]

Max(S) == CHOOSE x \in S : \A y \in S : y <= x

\* int(x**.5): the integer square root, as int() truncates the float root
ISqrt(x) == CHOOSE r \in 0..x : r * r <= x /\ (r + 1) * (r + 1) > x

-----------------------------------------------------------------------------
(* Host objects: what the code reads from gto.Mole / pbc.gto.Cell and from  *)
(* scf objects.                                                             *)
(*   mol = [cls, atom, a, nelec, cart, bas, pseudo, ecp, symmetry]          *)
(*   bas (mol._bas with its exponents and coefficients): a sequence of      *)
(*     [atom_of, ang, prims, nctr], prims a sequence of <<exp, coef>>       *)
(*   mf  = [cls, mol, mo_coeff, mo_energy, mo_occ, kpt]                     *)

\* mol.atom_charge(i): the nuclear charge of a chemical symbol (ghosts have none)
Charge(symb) == IF symb = "H" THEN 1 ELSE IF symb = "He" THEN 2 ELSE 0

\* mol.atom_charge(i): the effective charge, the core electrons of the
\* nucleus's ECP (table ecp, symbol -> [z_core, list]) taken off
AtomCharge(symb, ecp) ==
    Charge(symb) - (IF symb \in DOMAIN ecp THEN ecp[symb].z_core ELSE 0)

\* re.match(r"X-.*", symbol)
IsGhost(symb) == symb \in {"X-H", "X-He"}

\* functions per contraction column of a shell: mol.nao counts these
NFunc(cart, l) == IF cart THEN ((l + 1) * (l + 2)) \div 2 ELSE 2 * l + 1

\* mol.nao
Nao(mol) == Sum([i \in DOMAIN mol.bas |->
                    mol.bas[i].nctr * NFunc(mol.cart, mol.bas[i].ang)])

\* isinstance(obj, gto.Mole): pbc.gto.Cell is a subclass of gto.Mole
IsMole(obj) == obj.cls \in {"Mole", "Cell"}

\* isinstance(obj, scf.hf.SCF): scf.uhf.UHF is a subclass of scf.hf.SCF
IsSCF(obj) == obj.cls \in {"RHF", "UHF"}

-----------------------------------------------------------------------------
(* _order_ao_index                                                          *)

\* cache_by_l[l] with the two strided assignments used for every l
CacheByLGeneral(l) ==
    [k \in 1..(2 * l + 1) |->
        IF k % 2 = 1 THEN l - ((k - 1) \div 2) ELSE l + (k \div 2)]

\* cache_by_l[l]: [0], [2, 0, 1], and for l >= 2 the two strided assignments
\*   idx[ ::2] = l - arange(0, l+1);  idx[1::2] = arange(l+1, l+l+1)
CacheByL(l) ==
    IF l = 0 THEN <<0>>
    ELSE IF l = 1 THEN <<2, 0, 1>>
    ELSE [k \in 1..(2 * l + 1) |->
            IF k % 2 = 1 THEN l - ((k - 1) \div 2) ELSE l + (k \div 2)]

\* the loop over shells and contraction columns: blocks cache_by_l[l] + off
RECURSIVE SphBlocks(_, _)
SphBlocks(bas, off) ==
    IF bas = <<>> THEN <<>>
    ELSE LET l == Head(bas).ang
             w == 2 * l + 1
             one(n) == [k \in 1..w |-> CacheByL(l)[k] + off + (n - 1) * w]
         IN Concat([n \in 1..Head(bas).nctr |-> one(n)])
            \o SphBlocks(Tail(bas), off + Head(bas).nctr * w)

OrderAoIndex(mol) ==
    IF mol.cart THEN [k \in 1..Nao(mol) |-> k - 1]
    ELSE SphBlocks(mol.bas, 0)

-----------------------------------------------------------------------------
(* The container.                                                           *)

EmptyFile == [n \in {} |-> 0]

Has(f, name) == name \in DOMAIN f

\* a run of a call body: steps are <<"w", attribute, value>> (a write) or
\* <<"raise", exception>>; the body stops at its first raise
FirstRaise(steps) ==
    IF \E i \in DOMAIN steps : steps[i][1] = "raise"
    THEN CHOOSE i \in DOMAIN steps :
            /\ steps[i][1] = "raise"
            /\ \A j \in 1..(i - 1) : steps[j][1] # "raise"
    ELSE Len(steps) + 1

Done(steps) == SubSeq(steps, 1, FirstRaise(steps) - 1)

Raised(steps) ==
    IF FirstRaise(steps) <= Len(steps) THEN steps[FirstRaise(steps)][2] ELSE "none"

\* the writes of `steps` applied to container f ('u' mode: a write replaces)
Apply(f, steps) ==
    LET names == {steps[i][2] : i \in DOMAIN steps}
        last(n) == Max({i \in DOMAIN steps : steps[i][2] = n})
    IN [n \in DOMAIN f \cup names |->
            IF n \in names THEN steps[last(n)][3] ELSE f[n]]

WriteLog(steps) == [i \in DOMAIN steps |-> <<"w", steps[i][2]>>]

-----------------------------------------------------------------------------
(* _mol_to_trexio: the body as the sequence of its container writes and     *)
(* raises, in source order.                                                 *)

NoEcp == [n \in {} |-> 0]

\* a length a[i] / Bohr: the lattice is kept in angstrom and written in bohr
DivBohr(v) == [num |-> v, div |-> "BOHR"]

\* gto.gto_norm(l, exps) of one shell
GtoNorm(l, prims) == [k \in DOMAIN prims |-> <<"gto_norm", l, prims[k][1]>>]

\* float(np.sqrt((2*ang_mom+1)/(4*np.pi)))
SphNorm(l) == <<"sqrt((2l+1)/(4pi))", l>>

SystemSteps(mol) ==
    LET natm == Len(mol.atom)
    IN << <<"w", "metadata_code_num", 1>>,
          <<"w", "metadata_code", <<"PySCF">> >>,
          <<"w", "nucleus_num", natm>>,
          <<"w", "nucleus_charge", [i \in 1..natm |-> AtomCharge(mol.atom[i].symb, mol.ecp)]>>,
          <<"w", "nucleus_coord", [i \in 1..natm |-> mol.atom[i].coord]>>,
          <<"w", "nucleus_label", [i \in 1..natm |-> mol.atom[i].symb]>> >>
       \o (IF mol.symmetry # ""
           THEN << <<"w", "nucleus_point_group", mol.symmetry>> >> ELSE <<>>)

PbcSteps(mol) ==
    IF mol.cls = "Cell"
    THEN << <<"w", "pbc_periodic", TRUE>>,
            <<"w", "cell_a", DivBohr(mol.a[1])>>,
            <<"w", "cell_b", DivBohr(mol.a[2])>>,
            <<"w", "cell_c", DivBohr(mol.a[3])>> >>
    ELSE << <<"w", "pbc_periodic", FALSE>> >>

ElectronSteps(mol) ==
    << <<"w", "electron_num", mol.nelec[1] + mol.nelec[2]>>,
       <<"w", "electron_up_num", mol.nelec[1]>>,
       <<"w", "electron_dn_num", mol.nelec[2]>> >>

\* BasisSteps without the test on the number of contraction columns: the
\* export it describes accepts a generalized contraction
BasisStepsAnyColumns(mol) ==
    LET bas == mol.bas
        nbas == Len(bas)
        prim2sh == [ib \in 1..nbas |-> Repeat(ib - 1, Len(bas[ib].prims))]
        exps == [ib \in 1..nbas |-> [k \in DOMAIN bas[ib].prims |-> bas[ib].prims[k][1]]]
        coef == [ib \in 1..nbas |-> [k \in DOMAIN bas[ib].prims |-> bas[ib].prims[k][2]]]
    IN << <<"w", "basis_type", "Gaussian">>,
          <<"w", "basis_shell_num", nbas>>,
          <<"w", "basis_prim_num", Sum([ib \in 1..nbas |-> Len(bas[ib].prims)])>>,
          <<"w", "basis_nucleus_index", [ib \in 1..nbas |-> bas[ib].atom_of]>>,
          <<"w", "basis_shell_ang_mom", [ib \in 1..nbas |-> bas[ib].ang]>>,
          <<"w", "basis_shell_factor", Repeat(1, nbas)>> >>
       \o (IF nbas = 0 THEN << <<"raise", "ValueError">> >> ELSE <<>>)
       \o << <<"w", "basis_shell_index", Concat(prim2sh)>>,
             <<"w", "basis_exponent", Concat(exps)>>,
             <<"w", "basis_coefficient", Concat(coef)>>,
             <<"w", "basis_prim_factor",
               Concat([ib \in 1..nbas |-> GtoNorm(bas[ib].ang, bas[ib].prims)])>> >>

BasisSteps(mol) ==
    LET bas == mol.bas
        nbas == Len(bas)
        prim2sh == [ib \in 1..nbas |-> Repeat(ib - 1, Len(bas[ib].prims))]
        exps == [ib \in 1..nbas |-> [k \in DOMAIN bas[ib].prims |-> bas[ib].prims[k][1]]]
        coef == [ib \in 1..nbas |-> [k \in DOMAIN bas[ib].prims |-> bas[ib].prims[k][2]]]
    IN << <<"w", "basis_type", "Gaussian">>,
          <<"w", "basis_shell_num", nbas>>,
          <<"w", "basis_prim_num", Sum([ib \in 1..nbas |-> Len(bas[ib].prims)])>>,
          <<"w", "basis_nucleus_index", [ib \in 1..nbas |-> bas[ib].atom_of]>>,
          <<"w", "basis_shell_ang_mom", [ib \in 1..nbas |-> bas[ib].ang]>>,
          <<"w", "basis_shell_factor", Repeat(1, nbas)>> >>
       \* np.hstack of an empty list raises ValueError
       \o (IF nbas = 0 THEN << <<"raise", "ValueError">> >> ELSE <<>>)
       \o << <<"w", "basis_shell_index", Concat(prim2sh)>>,
             <<"w", "basis_exponent", Concat(exps)>> >>
       \o (IF \E ib \in 1..nbas : bas[ib].nctr # 1
           THEN << <<"raise", "NotImplementedError">> >> ELSE <<>>)
       \o << <<"w", "basis_coefficient", Concat(coef)>>,
             <<"w", "basis_prim_factor",
               Concat([ib \in 1..nbas |-> GtoNorm(bas[ib].ang, bas[ib].prims)])>> >>

PseudoSteps(mol) ==
    IF mol.pseudo THEN << <<"raise", "NotImplementedError">> >> ELSE <<>>

\* the inert entry of a ghost centre and of the dummy ul-s part
InertEntry(nuc) == [nuc |-> nuc, ang |-> 0, coef |-> 0, exp |-> 1, pow |-> 0]

\* EcpChannel with the radial index of the source kept as the power
EcpChannelRawPower(nuc, ang, rterms) ==
    Concat([r \in DOMAIN rterms |->
              [k \in DOMAIN rterms[r] |->
                 [nuc |-> nuc, ang |-> ang, coef |-> rterms[r][k][2],
                  exp |-> rterms[r][k][1], pow |-> r - 1]]])

\* the entries of one channel ecp = [l, rterms]: one per (exp, coeff) pair
EcpChannel(nuc, ang, rterms) ==
    Concat([r \in DOMAIN rterms |->
              [k \in DOMAIN rterms[r] |->
                 [nuc |-> nuc, ang |-> ang, coef |-> rterms[r][k][2],
                  exp |-> rterms[r][k][1], pow |-> (r - 1) - 2]]])

\* one pass of the loop over nuclei: [raise, plus1, zcore, entries]
EcpAtom(mol, i) ==
    LET symb == mol.atom[i].symb
    IN IF IsGhost(symb)
       THEN [raise |-> "none", plus1 |-> 1, zcore |-> 0,
             entries |-> <<InertEntry(i - 1)>>]
       ELSE IF symb \notin DOMAIN mol.ecp
       THEN [raise |-> "KeyError", plus1 |-> 0, zcore |-> 0, entries |-> <<>>]
       ELSE IF mol.ecp[symb].list = <<>>
       THEN [raise |-> "ValueError", plus1 |-> 0, zcore |-> 0, entries |-> <<>>]
       ELSE
         LET lst == mol.ecp[symb].list
             max_ang_mom == Max({lst[c].l : c \in DOMAIN lst})
             dummy_ul_s_part == (max_ang_mom = -1)
             max_ang_mom_plus_1 == IF dummy_ul_s_part THEN 1 ELSE max_ang_mom + 1
             ang(c) == IF lst[c].l = -1 THEN max_ang_mom_plus_1 ELSE lst[c].l
         IN [raise |-> "none", plus1 |-> max_ang_mom_plus_1,
             zcore |-> mol.ecp[symb].z_core,
             entries |->
                Concat([c \in DOMAIN lst |-> EcpChannel(i - 1, ang(c), lst[c].rterms)])
                \o (IF dummy_ul_s_part THEN <<InertEntry(i - 1)>> ELSE <<>>)]

EcpSteps(mol) ==
    IF DOMAIN mol.ecp = {} THEN <<>>
    ELSE
      LET natm == Len(mol.atom)
          per == [i \in 1..natm |-> EcpAtom(mol, i)]
          bad == {i \in 1..natm : per[i].raise # "none"}
          \* a nucleus whose pass raised appended nothing
          kept == {i \in 1..natm : per[i].raise = "none"}
          ents == Concat([i \in 1..natm |-> per[i].entries])
      IN IF bad # {}
         THEN << <<"raise", per[CHOOSE i \in bad : \A j \in bad : i <= j].raise>> >>
         ELSE << <<"w", "ecp_num", Len(ents)>>,
                 <<"w", "ecp_max_ang_mom_plus_1", [i \in 1..natm |-> per[i].plus1]>>,
                 <<"w", "ecp_z_core", [i \in 1..natm |-> per[i].zcore]>>,
                 <<"w", "ecp_nucleus_index", [k \in DOMAIN ents |-> ents[k].nuc]>>,
                 <<"w", "ecp_ang_mom", [k \in DOMAIN ents |-> ents[k].ang]>>,
                 <<"w", "ecp_coefficient", [k \in DOMAIN ents |-> ents[k].coef]>>,
                 <<"w", "ecp_exponent", [k \in DOMAIN ents |-> ents[k].exp]>>,
                 <<"w", "ecp_power", [k \in DOMAIN ents |-> ents[k].pow]>> >>

AoSteps(mol) ==
    LET bas == mol.bas
        nbas == Len(bas)
        n(l) == IF mol.cart THEN ((l + 1) * (l + 2)) \div 2 ELSE 2 * l + 1
        \* PySCF (libcint) normalizes s and p only in the Cartesian case
        norm(l) == IF mol.cart /\ l >= 2 THEN <<"one">> ELSE SphNorm(l)
    IN << <<"w", "ao_cartesian", IF mol.cart THEN 1 ELSE 0>>,
          <<"w", "ao_num", Nao(mol)>>,
          <<"w", "ao_shell",
            Concat([ib \in 1..nbas |-> Repeat(ib - 1, n(bas[ib].ang))])>>,
          <<"w", "ao_normalization",
            Concat([ib \in 1..nbas |-> Repeat(norm(bas[ib].ang), n(bas[ib].ang))])>> >>

MolSteps(mol) ==
    SystemSteps(mol) \o PbcSteps(mol) \o ElectronSteps(mol) \o BasisSteps(mol)
    \o PseudoSteps(mol) \o EcpSteps(mol) \o AoSteps(mol)

-----------------------------------------------------------------------------
(* _scf_to_trexio                                                           *)

\* the k-point block of a periodic wavefunction: only the gamma point is written
KptSteps(mf) ==
    IF mf.mol.cls # "Cell" THEN <<>>
    ELSE IF mf.kpt = "gamma"
    THEN << <<"w", "pbc_k_point_num", 1>>,
            <<"w", "pbc_k_point", << <<0, 0, 0>> >> >>,
            <<"w", "pbc_k_point_weight", <<1>> >> >>
    \* "general": Complex WF; "twisted": the ValueError handler
    ELSE << <<"raise", "NotImplementedError">> >>

\* mo[idx].T: one row per orbital, its entries in the container's AO order
PermuteRows(mo, idx, nmo) ==
    [m \in 1..nmo |-> [r \in DOMAIN idx |-> mo[idx[r] + 1][m]]]

MoSteps(mf) ==
    IF mf.cls = "UHF"
    \* np.hstack(*mf.mo_coeff) passes the two spin blocks as two arguments
    THEN << <<"raise", "TypeError">> >>
    ELSE
      LET nmo == Len(mf.mo_energy)
          idx == OrderAoIndex(mf.mol)
      IN << <<"w", "mo_type", "RHF">>,
            <<"w", "mo_num", nmo>>,
            <<"w", "mo_coefficient", PermuteRows(mf.mo_coeff, idx, nmo)>>,
            <<"w", "mo_energy", mf.mo_energy>>,
            <<"w", "mo_occupation", mf.mo_occ>>,
            <<"w", "mo_spin", Repeat(0, nmo)>> >>

ScfSteps(mf) == MolSteps(mf.mol) \o KptSteps(mf) \o MoSteps(mf)

\* to_trexio: the dispatch on the object's class inside the opened container
ToTrexioSteps(obj) ==
    IF IsMole(obj) THEN MolSteps(obj)
    ELSE IF IsSCF(obj) THEN ScfSteps(obj)
    ELSE << <<"raise", "NotImplementedError">> >>

-----------------------------------------------------------------------------
(* _group_by                                                                *)

\* KeysSorted with the assertion left out: every key column is accepted
KeysUnchecked(keys) == TRUE

\* assert all(keys[:-1] <= keys[1:])
KeysSorted(keys) == \A i \in 1..(Len(keys) - 1) : keys[i] <= keys[i + 1]

\* np.unique(keys, return_index=True)[1][1:] for sorted keys: the 0-based
\* positions where a new key starts, the first one left out
CutPoints(keys) == {i \in 1..(Len(keys) - 1) : keys[i + 1] # keys[i]}

\* np.split(a, cuts): the pieces of a between consecutive cut points
GroupBy(a, keys) ==
    LET cuts == CutPoints(keys)
        n == Cardinality(cuts) + 1
        \* the k-th smallest cut point (k = 0 gives 0, k = n gives the end)
        cut(k) == IF k = 0 THEN 0
                  ELSE IF k = n THEN Len(a)
                  ELSE CHOOSE c \in cuts : Cardinality({d \in cuts : d < c}) = k - 1
        clip(x) == IF x < Len(a) THEN x ELSE Len(a)
    IN [k \in 1..n |-> SubSeq(a, clip(cut(k - 1)) + 1, clip(cut(k)))]

-----------------------------------------------------------------------------
(* Reading a container: a call body as the sequence of its container reads  *)
(* (<<"r", attr>>), existence checks (<<"has", attr>>) and raises; reading  *)
(* an attribute that was never written raises trexio.Error.                 *)

ReadFails(f, step) == step[1] = "raise" \/ (step[1] = "r" /\ ~Has(f, step[2]))

FirstFail(f, steps) ==
    IF \E i \in DOMAIN steps : ReadFails(f, steps[i])
    THEN CHOOSE i \in DOMAIN steps :
            /\ ReadFails(f, steps[i])
            /\ \A j \in 1..(i - 1) : ~ReadFails(f, steps[j])
    ELSE Len(steps) + 1

ReadErr(f, steps) ==
    LET k == FirstFail(f, steps)
    IN IF k > Len(steps) THEN "none"
       ELSE IF steps[k][1] = "raise" THEN steps[k][2] ELSE "trexio.Error"

ReadLog(f, steps) == SubSeq(steps, 1, FirstFail(f, steps) - 1)

EcpAttrs == {"ecp_num", "ecp_max_ang_mom_plus_1", "ecp_z_core", "ecp_nucleus_index",
             "ecp_ang_mom", "ecp_coefficient", "ecp_exponent", "ecp_power"}

\* trexio.has_ecp: the ecp group holds something
HasEcp(f) == DOMAIN f \cap EcpAttrs # {}

-----------------------------------------------------------------------------
(* mol_from_trexio                                                          *)

None == [cls |-> "None"]

\* MolReadSteps without the has_ecp test: the import it describes goes on to
\* read the nuclei and the basis of a container that holds ECP data
MolReadStepsAnyEcp(f) ==
    << <<"r", "basis_type">> >>
    \o (IF Has(f, "basis_type") /\ f["basis_type"] # "Gaussian"
        THEN << <<"raise", "AssertionError">> >> ELSE <<>>)
    \o << <<"has", "ecp">> >>
    \o << <<"r", "nucleus_label">>, <<"r", "nucleus_coord">>, <<"has", "ao_cartesian">> >>
    \o (IF Has(f, "ao_cartesian") THEN << <<"r", "ao_cartesian">> >> ELSE <<>>)
    \o << <<"has", "nucleus_point_group">> >>
    \o (IF Has(f, "nucleus_point_group")
        THEN << <<"r", "nucleus_point_group">> >> ELSE <<>>)
    \o << <<"r", "basis_nucleus_index">>, <<"r", "basis_shell_ang_mom">>,
          <<"r", "basis_shell_index">>, <<"r", "basis_exponent">>,
          <<"r", "basis_coefficient">> >>

\* the container operations inside the with block, in source order
MolReadSteps(f) ==
    << <<"r", "basis_type">> >>
    \o (IF Has(f, "basis_type") /\ f["basis_type"] # "Gaussian"
        THEN << <<"raise", "AssertionError">> >> ELSE <<>>)
    \o << <<"has", "ecp">> >>
    \o (IF HasEcp(f) THEN << <<"raise", "NotImplementedError">> >> ELSE <<>>)
    \o << <<"r", "nucleus_label">>, <<"r", "nucleus_coord">>, <<"has", "ao_cartesian">> >>
    \o (IF Has(f, "ao_cartesian") THEN << <<"r", "ao_cartesian">> >> ELSE <<>>)
    \o << <<"has", "nucleus_point_group">> >>
    \o (IF Has(f, "nucleus_point_group")
        THEN << <<"r", "nucleus_point_group">> >> ELSE <<>>)
    \o << <<"r", "basis_nucleus_index">>, <<"r", "basis_shell_ang_mom">>,
          <<"r", "basis_shell_index">>, <<"r", "basis_exponent">>,
          <<"r", "basis_coefficient">> >>

\* zip(e, c) of one shell
ZipPrims(e, c) ==
    [k \in 1..(IF Len(e) < Len(c) THEN Len(e) ELSE Len(c)) |-> <<e[k], c[k]>>]

\* the loop over enumerate(_group_by(ls, nuc_idx)): group number ia (0-based)
\* becomes basis[elements[ia]], whose shells mol.build() gives to nucleus ia
RECURSIVE AtBasis(_, _, _, _, _, _)
AtBasis(groups, ia, p1, ls, exps, coef) ==
    IF groups = <<>> THEN <<>>
    ELSE LET p0 == p1
             q1 == p1 + Len(Head(groups))
             hi == Max({p0} \cup {j \in (p0 + 1)..q1 :
                                    j <= Len(ls) /\ j <= Len(exps) /\ j <= Len(coef)})
         IN [j \in 1..(hi - p0) |->
                [atom_of |-> ia, ang |-> ls[p0 + j],
                 prims |-> ZipPrims(exps[p0 + j], coef[p0 + j]), nctr |-> 1]]
            \o AtBasis(Tail(groups), ia + 1, q1, ls, exps, coef)

\* mol.build() of a gto.Mole() whose charge and spin were left at 0: the
\* electrons are those of the neutral molecule, paired; an odd count is
\* inconsistent with spin 0
BuildNelectron(labels) == Sum([i \in DOMAIN labels |-> Charge(labels[i])])

\* everything after the with block, given that every read succeeded
MolDecode(f) ==
    LET labels == f["nucleus_label"]
        coords == f["nucleus_coord"]
        nuc_idx == f["basis_nucleus_index"]
        ls == f["basis_shell_ang_mom"]
        prim2sh == f["basis_shell_index"]
        ne == BuildNelectron(labels)
    IN IF ~KeysSorted(prim2sh) \/ ~KeysSorted(nuc_idx)
       THEN [err |-> "AssertionError", ret |-> None]
       ELSE
         LET exps == GroupBy(f["basis_exponent"], prim2sh)
             coef == GroupBy(f["basis_coefficient"], prim2sh)
             groups == GroupBy(ls, nuc_idx)
         IN IF Len(groups) > Len(labels)
            THEN [err |-> "IndexError", ret |-> None]
            ELSE IF ne % 2 # 0
            THEN [err |-> "RuntimeError", ret |-> None]
            ELSE [err |-> "none",
                  ret |-> [cls |-> "Mole",
                           atom |-> [i \in DOMAIN labels |->
                                        [symb |-> labels[i], coord |-> coords[i]]],
                           a |-> <<>>,
                           nelec |-> <<ne \div 2, ne \div 2>>,
                           cart |-> IF Has(f, "ao_cartesian")
                                    THEN f["ao_cartesian"] = 1 ELSE FALSE,
                           bas |-> AtBasis(groups, 0, 0, ls, exps, coef),
                           pseudo |-> FALSE,
                           ecp |-> NoEcp,
                           symmetry |-> IF Has(f, "nucleus_point_group")
                                        THEN f["nucleus_point_group"] ELSE ""]]

\* one call of mol_from_trexio on container f: [ret, err, log]
MolFromTrexioRun(f) ==
    LET steps == MolReadSteps(f)
        e == ReadErr(f, steps)
        lg == << <<"open", "r">> >> \o ReadLog(f, steps) \o << <<"close">> >>
    IN IF e # "none" THEN [ret |-> None, err |-> e, log |-> lg]
       ELSE LET d == MolDecode(f) IN [ret |-> d.ret, err |-> d.err, log |-> lg]

-----------------------------------------------------------------------------
(* scf_from_trexio                                                          *)

ScfReadSteps == << <<"r", "mo_energy">>, <<"r", "mo_coefficient">>,
                   <<"r", "mo_occupation">> >>

\* mo.shape == (nao, nao) for the (mo_num, ao_num) array read from the container
IsSquare(mo, nao) == Len(mo) = nao /\ \A m \in DOMAIN mo : Len(mo[m]) = nao

\* the rows that mf.mo_coeff[idx] = mo.T assigns (0-based)
RowsAssigned(idx) == {idx[r] : r \in DOMAIN idx}

\* mf.mo_coeff = np.empty_like(mo).T; mf.mo_coeff[idx] = mo.T
\* row idx[r] receives row r of mo.T (the last r wins when idx repeats a row);
\* a row that idx never names keeps what np.empty_like left there, `junk`
ScatterRows(mo, idx, nao, junk) ==
    [i \in 1..nao |->
        IF (i - 1) \in RowsAssigned(idx)
        THEN LET r == Max({q \in DOMAIN idx : idx[q] = i - 1})
             IN [m \in 1..nao |-> mo[m][r]]
        ELSE [m \in 1..nao |-> junk]]

\* one call of scf_from_trexio on container f: [ret, err, log]
ScfFromTrexioRun(f, junk) ==
    LET first == MolFromTrexioRun(f)
        mol == first.ret
        lg == first.log \o << <<"open", "r">> >> \o ReadLog(f, ScfReadSteps)
                \o << <<"close">> >>
        e == ReadErr(f, ScfReadSteps)
    IN IF first.err # "none" THEN first
       ELSE IF e # "none" THEN [ret |-> None, err |-> e, log |-> lg]
       ELSE IF ~IsSquare(f["mo_coefficient"], Nao(mol))
       THEN [ret |-> None, err |-> "AssertionError", log |-> lg]
       ELSE LET idx == OrderAoIndex(mol)
                nao == Nao(mol)
            IN IF \E r \in DOMAIN idx : idx[r] >= nao
               THEN [ret |-> None, err |-> "IndexError", log |-> lg]
               ELSE IF Len(idx) # nao
               THEN [ret |-> None, err |-> "ValueError", log |-> lg]
               ELSE [ret |-> [cls |-> "RHF", mol |-> mol,
                              mo_coeff |-> ScatterRows(f["mo_coefficient"], idx, nao, junk),
                              rows |-> RowsAssigned(idx),
                              mo_energy |-> f["mo_energy"],
                              mo_occ |-> f["mo_occupation"]],
                     err |-> "none", log |-> lg]

-----------------------------------------------------------------------------
(* write_eri / read_eri                                                     *)
(*   a tensor is [ndim, n, data]: data is eri.ravel(), n the orbital count  *)

NPair(n) == (n * (n + 1)) \div 2

\* np.argwhere(np.arange(n)[:,None] >= np.arange(n)): the pairs (i, j), i >= j,
\* in row-major order
IdxPair(n) ==
    LET pairs == {<<i, j>> \in (0..(n - 1)) \X (0..(n - 1)) : i >= j}
        before(p, q) == p[1] < q[1] \/ (p[1] = q[1] /\ p[2] < q[2])
    IN [k \in 1..Cardinality(pairs) |->
          CHOOSE p \in pairs : Cardinality({q \in pairs : before(q, p)}) = k - 1]

\* lib.cartesian_prod([np.arange(n)]*4): every (i, j, k, l), row-major
DenseIdx(n) ==
    [t \in 1..(n * n * n * n) |->
        << ((t - 1) \div (n * n * n)) % n, ((t - 1) \div (n * n)) % n,
           ((t - 1) \div n) % n, (t - 1) % n >>]

\* idx[:,:,:2] = idx_pair[:,None,:]; idx[:,:,2:] = idx_pair[None,:,:]
\* reshaped to (npair**2, 4): entry (a, b) at row a * npair + b
FoldedIdx4(npair, n) ==
    LET ip == IdxPair(n)
    IN [t \in 1..(npair * npair) |->
          LET a == (t - 1) \div npair
              b == (t - 1) % npair
          IN <<ip[a + 1][1], ip[a + 1][2], ip[b + 1][1], ip[b + 1][2]>>]

\* FoldedIdx8 taking the other triangle, the entries (a, b) with a <= b
FoldedIdx8Upper(npair, n) ==
    LET ip == IdxPair(n)
        ab == IdxPair(npair)
    IN [t \in DOMAIN ab |->
          <<ip[ab[t][2] + 1][1], ip[ab[t][2] + 1][2],
            ip[ab[t][1] + 1][1], ip[ab[t][1] + 1][2]>>]

\* idx[np.tril_indices(npair)]: the entries (a, b), a >= b, row-major
FoldedIdx8(npair, n) ==
    LET ip == IdxPair(n)
        ab == IdxPair(npair)
    IN [t \in DOMAIN ab |->
          <<ip[ab[t][1] + 1][1], ip[ab[t][1] + 1][2],
            ip[ab[t][2] + 1][1], ip[ab[t][2] + 1][2]>>]

\* the index array write_eri builds from the tensor's rank and shape
EriIdx(eri) ==
    IF eri.ndim = 4 THEN DenseIdx(eri.shape0)
    ELSE IF eri.ndim = 2
    THEN LET npair == eri.shape0
         IN FoldedIdx4(npair, ISqrt(npair * 2))
    ELSE LET npair == ISqrt(eri.shape0 * 2)
         IN FoldedIdx8(npair, ISqrt(npair * 2))

\* trexio.write_mo_2e_int_eri(tf, 0, num_integrals, idx, eri.ravel())
WriteEriSteps(eri) ==
    << <<"w", "mo_2e_int_eri",
         [idx |-> EriIdx(eri), data |-> eri.data]>> >>

\* x = idx[:,0]*(idx[:,0]+1)//2 + idx[:,1]; y likewise; the address x*(x+1)//2+y
PairIndex(i, j) == (i * (i + 1)) \div 2 + j

EriAddress(t) ==
    LET x == PairIndex(t[1], t[2])
        y == PairIndex(t[3], t[4])
    IN (x * (x + 1)) \div 2 + y

\* an eri_size that counts every pair of pairs, the size of the 4-fold form
EriSizeSquare(nmo) == NPair(nmo) * NPair(nmo)

\* eri_size of read_eri
EriSize(nmo) == NPair(NPair(nmo))

\* one call of read_eri on container f: [ret, err, log]
ReadEriRun(f) ==
    LET steps == << <<"r", "mo_num">>, <<"r", "mo_2e_int_eri">> >>
        e == ReadErr(f, steps)
        lg == << <<"open", "r">> >> \o ReadLog(f, steps) \o << <<"close">> >>
    IN IF e # "none" THEN [ret |-> None, err |-> e, log |-> lg]
       ELSE
         LET eri_size == EriSize(f["mo_num"])
             stored == f["mo_2e_int_eri"]
             \* read_mo_2e_int_eri(tf, 0, eri_size): at most eri_size entries
             n_read == IF Len(stored.data) < eri_size THEN Len(stored.data) ELSE eri_size
             addr == [t \in 1..n_read |-> EriAddress(stored.idx[t])]
         IN IF \E t \in 1..n_read : addr[t] >= eri_size
            THEN [ret |-> None, err |-> "IndexError", log |-> lg]
            ELSE [ret |-> [cls |-> "eri",
                           \* eri = np.zeros(eri_size); eri[addr] = data
                           data |-> [k \in 1..eri_size |->
                                       IF \E t \in 1..n_read : addr[t] = k - 1
                                       THEN stored.data[Max({t \in 1..n_read :
                                                               addr[t] = k - 1})]
                                       ELSE 0]],
                  err |-> "none", log |-> lg]

-----------------------------------------------------------------------------
(* The objects the entry points are called with.                            *)

Symbols == {"H", "He"}

SymSeqs == UNION {[1..k -> Symbols] : k \in 1..MaxAtoms}

\* nucleus i sits at (0, 0, i-1): no two nuclei share a coordinate
Atoms(syms) == [i \in DOMAIN syms |-> [symb |-> syms[i], coord |-> <<0, 0, i - 1>>]]

\* the bare nuclear charges of the symbols, the electrons of a neutral
\* structure that carries no ECP
TotalCharge(syms) == Sum([i \in DOMAIN syms |-> Charge(syms[i])])

\* mol.nelec of the neutral structure in its lowest spin state: the electrons
\* number the effective charges
NeutralNelec(syms, ecp) ==
    LET n == Sum([i \in DOMAIN syms |-> AtomCharge(syms[i], ecp)])
    IN <<(n + 1) \div 2, n \div 2>>

MkMol(cls, syms, a, nelec, cart, bas, pseudo, ecp, symmetry) ==
    [cls |-> cls, atom |-> Atoms(syms), a |-> a, nelec |-> nelec, cart |-> cart,
     bas |-> bas, pseudo |-> pseudo, ecp |-> ecp, symmetry |-> symmetry]

\* mol._bas is built nucleus by nucleus, so its nucleus column is ascending
AscendingAtoms(lay) == \A i \in 1..(Len(lay) - 1) : lay[i][1] <= lay[i + 1][1]

\* shell k of a layout <<nucleus, l, primitives, columns>>: its primitives
\* are told apart by the shell's place and their own
LayoutBas(lay) ==
    [k \in DOMAIN lay |->
        [atom_of |-> lay[k][1], ang |-> lay[k][2],
         prims |-> [j \in 1..lay[k][3] |-> <<10 * k + j, 100 + 10 * k + j>>],
         nctr |-> lay[k][4]]]

\* shell layouts of natm nuclei: which nucleus owns each shell (any number,
\* none included) and its angular momentum; one primitive, one column
Layouts(natm) ==
    {lay \in SeqsUpTo((0..(natm - 1)) \X (0..MaxL) \X {1} \X {1}, MaxShells) :
        AscendingAtoms(lay)}

Heliums(natm) == [i \in 1..natm |-> "He"]

\* family 1: every assignment of shells to nuclei, both orbital kinds
LayoutMols ==
    UNION {{MkMol("Mole", Heliums(natm), <<>>, <<natm, natm>>, cart, LayoutBas(lay),
                  FALSE, NoEcp, "") : <<lay, cart>> \in Layouts(natm) \X BOOLEAN} :
           natm \in 1..MaxAtoms}

\* family 2: one nucleus, one or two shells, every number of primitives and
\* one or two contraction columns
ContractionMols ==
    {MkMol("Mole", <<"He">>, <<>>, <<1, 1>>, cart, LayoutBas(lay), FALSE, NoEcp, "") :
        <<lay, cart>> \in
            (UNION {[1..k -> {0} \X (0..1) \X (1..MaxPrim) \X {1, 2}] : k \in 1..2})
            \X BOOLEAN}

Lattices == { << <<3, 0, 0>>, <<0, 3, 0>>, <<0, 0, 5>> >>,
              << <<4, 0, 0>>, <<0, 4, 0>>, <<1, 0, 4>> >> }

\* (cls, a): an open molecule, or a cell with its lattice vectors
Periodicities == {<<"Mole", <<>> >>} \cup {<<"Cell", a>> : a \in Lattices}

\* mol.nelec of the neutral molecule and of its cation, in every spin state
NelecChoices(syms) ==
    {ud \in (0..TotalCharge(syms)) \X (0..TotalCharge(syms)) :
        /\ ud[1] >= ud[2]
        /\ ud[1] + ud[2] >= 1
        /\ ud[1] + ud[2] \in {TotalCharge(syms), TotalCharge(syms) - 1}}

\* mol._ecp: symbol -> [z_core, list of channels [l, rterms]]; rterms[r+1]
\* holds the (exp, coeff) pairs of radial power r
EcpH == [z_core |-> 0,
         list |-> << [l |-> -1, rterms |-> << <<>>, << <<21, 1>> >>, <<>>, << <<22, 2>> >> >>] >>]

EcpHe == [z_core |-> 0,
          list |-> << [l |-> -1, rterms |-> << <<>>, << <<31, 3>> >> >>],
                      [l |-> 0, rterms |-> << <<>>, <<>>, << <<32, 4>>, <<33, 5>> >> >>] >>]

\* a table whose channels are out of order and reach l = 1
EcpHeP == [z_core |-> 2,
           list |-> << [l |-> 1, rterms |-> << <<>>, <<>>, << <<41, 6>> >> >>],
                       [l |-> -1, rterms |-> << << <<42, 7>> >>, << <<43, 8>> >> >>],
                       [l |-> 0, rterms |-> << <<>>, <<>>, << <<44, 9>> >> >>] >>]

EcpTables == {NoEcp, [s \in {"H"} |-> EcpH],
              [s \in {"H", "He"} |-> IF s = "H" THEN EcpH ELSE EcpHe],
              [s \in {"H", "He"} |-> IF s = "H" THEN EcpH ELSE EcpHeP]}

\* one s shell on every nucleus
MinimalBas(syms) == LayoutBas([k \in DOMAIN syms |-> <<k - 1, 0, 1, 1>>])

\* family 3: periodicity and electron counts ...
PbcMols ==
    UNION {{MkMol(t[1][1], syms, t[1][2], t[2], t[3], MinimalBas(syms), FALSE, NoEcp, "") :
              t \in Periodicities \X NelecChoices(syms) \X BOOLEAN} :
           syms \in SymSeqs}

\* ... and pseudopotentials, ECP tables and point groups
EnvMols ==
    UNION {{MkMol(t[1][1], syms, t[1][2], NeutralNelec(syms, t[3]), FALSE, MinimalBas(syms),
                  t[2], t[3], t[4]) :
              t \in Periodicities \X BOOLEAN \X EcpTables \X {"", "C2v"}} :
           syms \in SymSeqs}

Mols == LayoutMols \cup ContractionMols \cup PbcMols \cup EnvMols

\* entry (ao, m) of a coefficient matrix: every entry its own value
CoeffMatrix(nao, nmo, base) == [i \in 1..nao |-> [m \in 1..nmo |-> base + 100 * i + m]]

Kpts(mol) == IF mol.cls = "Cell" THEN {"gamma", "general", "twisted"} ELSE {"gamma"}

\* a matrix is square when nmo = nao; one orbital fewer is the other shape
NmoChoices(nao) == {nao} \cup {n \in {nao - 1} : n >= 1}

\* mf.mo_occ of a restricted wavefunction: orbital m holds one electron of
\* each spin that has more than m - 1 of them
Occupation(nelec, nmo) ==
    [m \in 1..nmo |-> (IF m <= nelec[1] THEN 1 ELSE 0) + (IF m <= nelec[2] THEN 1 ELSE 0)]

RHFs ==
    UNION {{[cls |-> "RHF", mol |-> mol, mo_coeff |-> CoeffMatrix(Nao(mol), nmo, 0),
             mo_energy |-> [m \in 1..nmo |-> m],
             mo_occ |-> Occupation(mol.nelec, nmo), kpt |-> kpt] :
              <<nmo, kpt>> \in NmoChoices(Nao(mol)) \X Kpts(mol)} :
           mol \in Mols}

\* mf.mo_coeff, mf.mo_energy, mf.mo_occ of an unrestricted wavefunction are
\* pairs: the alpha block and the beta block
UHFs ==
    UNION {{[cls |-> "UHF", mol |-> mol,
             mo_coeff |-> <<CoeffMatrix(Nao(mol), Nao(mol), 0),
                            CoeffMatrix(Nao(mol), Nao(mol), 5000)>>,
             mo_energy |-> <<[m \in 1..Nao(mol) |-> m], [m \in 1..Nao(mol) |-> 50 + m]>>,
             mo_occ |-> <<[m \in 1..Nao(mol) |-> IF m = 1 THEN 1 ELSE 0],
                          [m \in 1..Nao(mol) |-> 0]>>,
             kpt |-> kpt] : kpt \in Kpts(mol)} :
           mol \in PbcMols \cup ContractionMols}

\* an object that is neither a structure nor a wavefunction
Others == {[cls |-> "Other"]}

-----------------------------------------------------------------------------
(* Containers written by another TREXIO producer: the structure part as     *)
(* to_trexio writes it, the orbital part with any stored kind and any       *)
(* number of alpha and beta orbitals.                                       *)

ForeignMols ==
    {MkMol("Mole", <<"He">>, <<>>, <<1, 1>>, FALSE, LayoutBas(lay), FALSE, NoEcp, "") :
        lay \in {l \in Layouts(1) : Len(l) = 1}}

ForeignMoSteps(mol, kind, na, nb) ==
    LET n == na + nb
    IN << <<"w", "mo_type", kind>>,
          <<"w", "mo_num", n>>,
          <<"w", "mo_coefficient", [m \in 1..n |-> [r \in 1..Nao(mol) |-> 100 * r + m]]>>,
          <<"w", "mo_energy", [m \in 1..n |-> m]>>,
          <<"w", "mo_occupation", [m \in 1..n |-> IF m = 1 \/ m = na + 1 THEN 1 ELSE 0]>>,
          <<"w", "mo_spin", [m \in 1..n |-> IF m <= na THEN 0 ELSE 1]>> >>

\* (kind, na, nb): a restricted file has one block, an unrestricted one two
ForeignKinds(mol) ==
    {<<"RHF", na, 0>> : na \in 1..(Nao(mol) + 1)}
    \cup {<<"UHF", na, nb>> : <<na, nb>> \in (1..Nao(mol)) \X (1..Nao(mol))}

-----------------------------------------------------------------------------
(* Actions: one per entry point.                                            *)

Init ==
    /\ file = EmptyFile
    /\ src = None
    /\ werr = "none"
    /\ op = "init"
    /\ ret = None
    /\ err = "none"
    /\ log = <<>>

\* ToTrexioCall with the handle closed by a statement after the dispatch
\* instead of by the with block: a call that raises leaves it open
ToTrexioCallCloseAtEnd(obj) ==
    LET steps == ToTrexioSteps(obj)
    IN /\ op = "init"
       /\ file' = Apply(EmptyFile, Done(steps))
       /\ src' = obj
       /\ werr' = Raised(steps)
       /\ op' = "to_trexio"
       /\ ret' = None
       /\ err' = Raised(steps)
       /\ log' = << <<"open", "u">> >> \o WriteLog(Done(steps))
                    \o (IF Raised(steps) = "none" THEN << <<"close">> >> ELSE <<>>)

\* to_trexio(obj, filename) on a new file name: the container starts empty.
\* A behaviour follows one container from its creation; a call on another
\* new file name would reach the same states, as it replaces every variable.
ToTrexioCall(obj) ==
    LET steps == ToTrexioSteps(obj)
    IN /\ op = "init"
       /\ file' = Apply(EmptyFile, Done(steps))
       /\ src' = obj
       /\ werr' = Raised(steps)
       /\ op' = "to_trexio"
       /\ ret' = None
       /\ err' = Raised(steps)
       /\ log' = << <<"open", "u">> >> \o WriteLog(Done(steps)) \o << <<"close">> >>

ToTrexio ==
    \/ \E obj \in Mols : ToTrexioCall(obj)
    \/ \E obj \in RHFs : ToTrexioCall(obj)
    \/ \E obj \in UHFs : ToTrexioCall(obj)
    \/ \E obj \in Others : ToTrexioCall(obj)

\* a container another producer wrote is handed to the import functions
ForeignFile ==
    \E mol \in ForeignMols : \E k \in ForeignKinds(mol) :
        /\ op = "init"
        /\ file' = Apply(EmptyFile, MolSteps(mol) \o ForeignMoSteps(mol, k[1], k[2], k[3]))
        /\ src' = [cls |-> "Foreign", mol |-> mol, kind |-> k[1], na |-> k[2], nb |-> k[3]]
        /\ werr' = "none"
        /\ op' = "foreign"
        /\ ret' = None
        /\ err' = "none"
        /\ log' = <<>>

\* the steps with the value written to attr replaced
Override(steps, attr, value) ==
    [k \in DOMAIN steps |->
        IF steps[k][1] = "w" /\ steps[k][2] = attr THEN <<"w", attr, value>> ELSE steps[k]]

\* two nuclei, an s shell of one primitive and a p shell of two
ColumnsMol ==
    MkMol("Mole", <<"He", "He">>, <<>>, <<2, 2>>, FALSE,
          LayoutBas(<< <<0, 0, 1, 1>>, <<1, 1, 2, 1>> >>), FALSE, NoEcp, "")

\* a container of another producer whose nucleus-index column (one entry per
\* shell) and shell-index column (one entry per primitive) are in any order
ForeignColumns ==
    \E nuc_idx \in [1..2 -> 0..1] : \E prim2sh \in [1..3 -> 0..1] :
        /\ op = "init"
        /\ file' = Apply(EmptyFile,
                         Override(Override(MolSteps(ColumnsMol),
                                           "basis_nucleus_index", nuc_idx),
                                  "basis_shell_index", prim2sh))
        /\ src' = [cls |-> "ForeignColumns", mol |-> ColumnsMol]
        /\ werr' = "none"
        /\ op' = "foreign"
        /\ ret' = None
        /\ err' = "none"
        /\ log' = <<>>

\* mol_from_trexio(filename) on the container at hand
MolFromTrexio ==
    /\ op # "init"
    /\ LET run == MolFromTrexioRun(file)
       IN /\ op' = "mol_from_trexio"
          /\ ret' = run.ret
          /\ err' = run.err
          /\ log' = run.log
    /\ UNCHANGED <<file, src, werr>>

\* scf_from_trexio(filename) on the container at hand
ScfFromTrexio ==
    /\ op # "init"
    /\ \E junk \in {0, -1} :
         LET run == ScfFromTrexioRun(file, junk)
         IN /\ op' = "scf_from_trexio"
            /\ ret' = run.ret
            /\ err' = run.err
            /\ log' = run.log
    /\ UNCHANGED <<file, src, werr>>

Next == ToTrexio \/ ForeignFile \/ ForeignColumns \/ MolFromTrexio \/ ScfFromTrexio

Spec == Init /\ [][Next]_vars

-----------------------------------------------------------------------------
(* Integral tables: write_eri and read_eri on a container that to_trexio    *)
(* wrote (its mo_num is the stored orbital count).                          *)

\* a wavefunction with k orbitals: k s shells on one nucleus
EriHost(k) ==
    LET mol == MkMol("Mole", <<"He">>, <<>>, <<1, 1>>, FALSE,
                     LayoutBas([j \in 1..k |-> <<0, 0, 1, 1>>]), FALSE, NoEcp, "")
    IN [cls |-> "RHF", mol |-> mol, mo_coeff |-> CoeffMatrix(k, k, 0),
        mo_energy |-> [m \in 1..k |-> m],
        mo_occ |-> Occupation(mol.nelec, k), kpt |-> "gamma"]

\* the address of (i, j, k, l) and of every tuple the 8-fold symmetry maps it to
CanonAddress(t) ==
    LET hi(a, b) == IF a >= b THEN a ELSE b
        lo(a, b) == IF a >= b THEN b ELSE a
        x == PairIndex(hi(t[1], t[2]), lo(t[1], t[2]))
        y == PairIndex(hi(t[3], t[4]), lo(t[3], t[4]))
    IN PairIndex(hi(x, y), lo(x, y))

\* eri.ravel() of the tensors handed to write_eri: 8-fold packed (ndim 1),
\* 4-fold folded (ndim 2, any square array of pairs is one) and dense (ndim 4,
\* here with the full 8-fold symmetry or constant)
Tensors ==
    UNION {
        {[cls |-> "eri", ndim |-> 1, n |-> n, shape0 |-> NPair(NPair(n)), data |-> d] :
            d \in {[k \in 1..NPair(NPair(n)) |-> k],
                   [k \in 1..NPair(NPair(n)) |-> NPair(NPair(n)) + 1 - k],
                   [k \in 1..NPair(NPair(n)) |-> 7]}}
        \cup
        {[cls |-> "eri", ndim |-> 2, n |-> n, shape0 |-> NPair(n), data |-> d] :
            d \in {[k \in 1..(NPair(n) * NPair(n)) |-> k],
                   [k \in 1..(NPair(n) * NPair(n)) |-> 7]}}
        \cup
        {[cls |-> "eri", ndim |-> 4, n |-> n, shape0 |-> n, data |-> d] :
            d \in {[k \in 1..(n * n * n * n) |-> 1 + CanonAddress(DenseIdx(n)[k])],
                   [k \in 1..(n * n * n * n) |-> 7]}} :
        n \in 1..MaxN}

InitEri ==
    \E k \in 1..MaxN :
        LET steps == ToTrexioSteps(EriHost(k))
        IN /\ file = Apply(EmptyFile, Done(steps))
           /\ src = EriHost(k)
           /\ werr = Raised(steps)
           /\ op = "to_trexio"
           /\ ret = None
           /\ err = Raised(steps)
           /\ log = << <<"open", "u">> >> \o WriteLog(Done(steps)) \o << <<"close">> >>

\* write_eri(eri, filename): the first write of the table, to a container
\* that holds the orbitals the table is indexed by
WriteEriCall(eri) ==
    LET steps == WriteEriSteps(eri)
    IN /\ Has(file, "mo_num")
       /\ ~Has(file, "mo_2e_int_eri")
       /\ file' = Apply(file, steps)
       /\ src' = eri
       /\ werr' = "none"
       /\ op' = "write_eri"
       /\ ret' = None
       /\ err' = "none"
       /\ log' = << <<"open", "w">> >> \o WriteLog(steps) \o << <<"close">> >>

WriteEri == \E eri \in Tensors : WriteEriCall(eri)

\* read_eri(filename)
ReadEri ==
    /\ op # "init"
    /\ LET run == ReadEriRun(file)
       IN /\ op' = "read_eri"
          /\ ret' = run.ret
          /\ err' = run.err
          /\ log' = run.log
    /\ UNCHANGED <<file, src, werr>>

NextEri == WriteEri \/ ReadEri

SpecEri == InitEri /\ [][NextEri]_vars

-----------------------------------------------------------------------------
(* Properties.                                                              *)

\* the structure an exported object carries
SrcMol == IF IsSCF(src) THEN src.mol ELSE src

\* to_trexio was given a structure or a wavefunction and returned
Exported == src.cls \in {"Mole", "Cell", "RHF", "UHF"} /\ werr = "none"

\* mol.build() accepts the imported nuclei: their charges sum to an even number
EvenCharge == TotalCharge([i \in DOMAIN SrcMol.atom |-> SrcMol.atom[i].symb]) % 2 = 0

\* the arrays of the nuclear geometry and of the basis
StructureArrays == {"nucleus_label", "nucleus_coord", "basis_nucleus_index",
                    "basis_shell_ang_mom", "basis_shell_index", "basis_exponent",
                    "basis_coefficient"}

\* C1: scf_from_trexio(to_trexio(mf)) of a restricted wavefunction with a
\* square coefficient matrix returns the coefficient matrix of mf, every row
\* of it filled.
C1_RestrictedRoundTrip ==
    (/\ op = "scf_from_trexio"
     /\ Exported
     /\ src.cls = "RHF"
     /\ ~HasEcp(file)
     /\ Len(src.mo_energy) = Nao(src.mol))
    => /\ err = "none"
       /\ ret.mo_coeff = src.mo_coeff
       /\ ret.rows = 0..(Nao(src.mol) - 1)

\* C2: mol_from_trexio(to_trexio(S)) of a structure with single-column
\* contractions and no ECP has the nuclei of S in order, each with the shells
\* S attaches to it, and the Cartesian/spherical flag of S.
C2_StructureRoundTrip ==
    (/\ op = "mol_from_trexio"
     /\ Exported
     /\ IsMole(src)
     /\ ~HasEcp(file)
     /\ EvenCharge)
    => /\ err = "none"
       /\ ret.atom = src.atom
       /\ ret.bas = src.bas
       /\ ret.cart = src.cart

\* C3: when the container stores n orbitals, read_eri after write_eri(T) of an
\* 8-fold packed rank-1 tensor T for n orbitals returns an array of the length
\* of T with the entries of T.
C3_PackedEriRoundTrip ==
    (/\ op = "read_eri"
     /\ src.cls = "eri"
     /\ src.ndim = 1
     /\ file["mo_num"] = src.n)
    => /\ err = "none"
       /\ Len(ret.data) = Len(src.data)
       /\ ret.data = src.data

C3_PackedEriRead ==
    /\ op = "read_eri"
    /\ src.cls = "eri"
    /\ src.ndim = 1
    /\ src.n = MaxN
    /\ file["mo_num"] = MaxN
    /\ src.data[1] # src.data[2]
    /\ err = "none"
    /\ ret.data = src.data

\* C4 (as stated): read_eri after write_eri(T) of a dense or 4-fold folded
\* tensor T returns T.
C4_FoldedDenseEriRoundTrip ==
    (/\ op = "read_eri"
     /\ src.cls = "eri"
     /\ src.ndim \in {2, 4}
     /\ file["mo_num"] = src.n)
    => /\ err = "none"
       /\ ret.data = src.data

\* C4 (amended): read_eri after write_eri(T) of a dense or 4-fold folded
\* tensor T for n orbitals returns a rank-1 array of the 8-fold packed length
\* P(P+1)/2, P = n(n+1)/2, whose first entry is the first entry of T; it is T
\* when n = 1 and shorter than T when n > 1.
C4_FoldedDenseEriRead ==
    (/\ op = "read_eri"
     /\ src.cls = "eri"
     /\ src.ndim \in {2, 4}
     /\ file["mo_num"] = src.n)
    => /\ err = "none"
       /\ Len(ret.data) = NPair(NPair(src.n))
       /\ ret.data[1] = src.data[1]
       /\ (src.n = 1 => ret.data = src.data)
       /\ (src.n > 1 => Len(ret.data) < Len(src.data))

C4_FoldedEriReadShorter ==
    /\ op = "read_eri"
    /\ src.cls = "eri"
    /\ src.ndim = 2
    /\ src.n = 2
    /\ file["mo_num"] = 2
    /\ err = "none"
    /\ Len(ret.data) = 6
    /\ Len(src.data) = 9

\* C5: to_trexio of a structure, or of a wavefunction on a structure, with a
\* shell of more than one contraction column raises NotImplementedError and
\* does not write the contraction coefficients.
C5_GeneralizedContractionRejected ==
    (/\ op # "init"
     /\ src.cls \in {"Mole", "Cell", "RHF", "UHF"}
     /\ \E ib \in DOMAIN SrcMol.bas : SrcMol.bas[ib].nctr > 1)
    => /\ werr = "NotImplementedError"
       /\ ~Has(file, "basis_coefficient")

C5_GeneralizedContractionSeen ==
    /\ op = "to_trexio"
    /\ src.cls = "RHF"
    /\ \E ib \in DOMAIN src.mol.bas : src.mol.bas[ib].nctr = 2
    /\ err = "NotImplementedError"

\* C6: mol_from_trexio and scf_from_trexio on a container that holds ECP data
\* raise NotImplementedError, return nothing, and have read no array of the
\* nuclear geometry or of the basis.
C6_EcpImportRejected ==
    (/\ op \in {"mol_from_trexio", "scf_from_trexio"}
     /\ HasEcp(file))
    => /\ err = "NotImplementedError"
       /\ ret = None
       /\ \A i \in DOMAIN log : log[i][1] = "r" => log[i][2] \notin StructureArrays

C6_EcpFileImported ==
    /\ op = "scf_from_trexio"
    /\ src.cls = "RHF"
    /\ Exported
    /\ HasEcp(file)
    /\ Has(file, "mo_coefficient")
    /\ err = "NotImplementedError"

\* C7: scf_from_trexio on a container whose stored wavefunction kind is
\* unrestricted fails and returns no wavefunction.
C7_UnrestrictedImportRejected ==
    (/\ op = "scf_from_trexio"
     /\ Has(file, "mo_type")
     /\ file["mo_type"] = "UHF")
    => /\ err # "none"
       /\ ret = None

\* C8: a call of to_trexio that fails with the unsupported-feature error has
\* written no attribute to the container.
C8_ExportAllOrNothing ==
    (/\ op = "to_trexio"
     /\ err = "NotImplementedError")
    => DOMAIN file = {}

\* C9: mol_from_trexio(to_trexio(S)) of a periodic structure S is periodic
\* with the lattice vectors of S, and of an open structure is open.
C9_PeriodicityRoundTrip ==
    (/\ op = "mol_from_trexio"
     /\ Exported
     /\ IsMole(src)
     /\ err = "none")
    => /\ ret.cls = src.cls
       /\ ret.a = src.a

\* C10: mol_from_trexio(to_trexio(S)) has the (up-spin, down-spin) electron
\* counts of S.
C10_ElectronCountsRoundTrip ==
    (/\ op = "mol_from_trexio"
     /\ Exported
     /\ IsMole(src)
     /\ ~HasEcp(file)
     /\ EvenCharge)
    => /\ err = "none"
       /\ ret.nelec = src.nelec

\* the structure of the exported wavefunction and its k-point are ones that
\* _mol_to_trexio and the k-point branch of _scf_to_trexio accept
StructureAccepted == Raised(MolSteps(src.mol) \o KptSteps(src)) = "none"

\* C11: to_trexio on an unrestricted wavefunction with na alpha and nb beta
\* orbitals completes and writes the orbital count na + nb, the energies and
\* occupations as the alpha block followed by the beta block, and the spin
\* tag 0 for the first na orbitals and 1 for the other nb.
C11_UnrestrictedExport ==
    (/\ op = "to_trexio"
     /\ src.cls = "UHF"
     /\ StructureAccepted)
    => /\ err = "none"
       /\ Has(file, "mo_num")
       /\ file["mo_type"] = "UHF"
       /\ file["mo_num"] = Len(src.mo_energy[1]) + Len(src.mo_energy[2])
       /\ file["mo_energy"] = src.mo_energy[1] \o src.mo_energy[2]
       /\ file["mo_occupation"] = src.mo_occ[1] \o src.mo_occ[2]
       /\ file["mo_spin"] = Repeat(0, Len(src.mo_energy[1]))
                               \o Repeat(1, Len(src.mo_energy[2]))

-----------------------------------------------------------------------------
(* The five entry points on one container.                                  *)

\* to_trexio on the structures of the contraction and pseudopotential/ECP
\* families, on the wavefunctions built on them, and on a foreign object:
\* every exit path of to_trexio is taken
HandleMols == {mol \in ContractionMols \cup EnvMols : Len(mol.atom) = 1 /\ Len(mol.bas) = 1}

ToTrexioSome ==
    \/ \E obj \in HandleMols : ToTrexioCall(obj)
    \/ \E obj \in {mf \in RHFs \cup UHFs : mf.mol \in HandleMols} : ToTrexioCall(obj)
    \/ \E obj \in Others : ToTrexioCall(obj)

\* write_eri of the tables for one and two orbitals
WriteEriSome == \E eri \in {t \in Tensors : t.n <= 2} : WriteEriCall(eri)

NextAll ==
    \/ ToTrexioSome
    \/ ForeignFile
    \/ ForeignColumns
    \/ MolFromTrexio
    \/ ScfFromTrexio
    \/ WriteEriSome
    \/ ReadEri

SpecAll == Init /\ [][NextAll]_vars

\* the handles open after the first i operations of the last call
OpenHandles(i) ==
    Cardinality({j \in 1..i : log[j][1] = "open"})
        - Cardinality({j \in 1..i : log[j][1] = "close"})

\* C12: in every call, on every exit path, each handle opened is closed by
\* the time the call returns or raises, at most one handle is open at a time,
\* and every attribute is read, tested or written while a handle is open.
C12_ScopedHandle ==
    /\ OpenHandles(Len(log)) = 0
    /\ \A i \in DOMAIN log :
          /\ OpenHandles(i) \in {0, 1}
          /\ log[i][1] \in {"r", "w", "has"} => OpenHandles(i) = 1
          /\ log[i][1] = "open" => OpenHandles(i) = 1
          /\ log[i][1] = "close" => OpenHandles(i) = 0
    /\ op \in {"to_trexio", "mol_from_trexio", "scf_from_trexio", "write_eri", "read_eri"}
          => Len(log) >= 2 /\ log[1][1] = "open"

C12_FailedCallsClosed ==
    /\ op = "scf_from_trexio"
    /\ werr = "NotImplementedError"
    /\ err = "trexio.Error"
    /\ Cardinality({j \in DOMAIN log : log[j][1] = "open"}) = 2
    /\ log[Len(log)] = <<"close">>

\* some entry of the column is larger than the next one
Descends(col) == \E i \in 1..(Len(col) - 1) : col[i] > col[i + 1]

\* C13: mol_from_trexio on a container whose shell-index column or
\* nucleus-index column is not sorted ascending returns no structure: it
\* raises, and when the container holds no ECP data and every array of the
\* structure, what it raises is the AssertionError of _group_by.
C13_UnsortedKeysRejected ==
    (/\ op = "mol_from_trexio"
     /\ Has(file, "basis_shell_index")
     /\ Has(file, "basis_nucleus_index")
     /\ Descends(file["basis_shell_index"]) \/ Descends(file["basis_nucleus_index"]))
    => /\ ret = None
       /\ err # "none"
       /\ (~HasEcp(file) /\ StructureArrays \subseteq DOMAIN file)
              => err = "AssertionError"

C13_UnsortedNucleusColumn ==
    /\ op = "mol_from_trexio"
    /\ src.cls = "ForeignColumns"
    /\ file["basis_nucleus_index"] = <<1, 0>>
    /\ ~Descends(file["basis_shell_index"])
    /\ ret = None
    /\ err = "AssertionError"

\* the (channel, radial index, place) triples of the (exponent, coefficient)
\* pairs of a table entry
EcpPairs(lst) ==
    {t \in (DOMAIN lst) \X (1..4) \X (1..2) :
        /\ t[2] \in DOMAIN lst[t[1]].rterms
        /\ t[3] \in DOMAIN lst[t[1]].rterms[t[2]]}

\* the angular momenta of the channels that do not carry the local marker
ExplicitL(lst) == {lst[c].l : c \in DOMAIN lst} \ {-1}

\* C14: for every nucleus that has ECP data, the recorded local-channel index
\* is the largest explicit angular momentum plus one, or 1 when every channel
\* is local; the entries of the nucleus are one per (exponent, coefficient)
\* pair, with the local-channel index when the channel is local and the
\* channel's own angular momentum otherwise, and with power = radial index - 2;
\* no angular momentum written is negative or above the local-channel index;
\* and exactly when every channel is local one more entry (0, 0, 1, 0) follows.
C14_EcpChannelEncoding ==
    (/\ op = "to_trexio"
     /\ src.cls \in {"Mole", "Cell", "RHF", "UHF"}
     /\ Has(file, "ecp_num"))
    => \A i \in DOMAIN SrcMol.atom :
          LET symb == SrcMol.atom[i].symb
              lst == SrcMol.ecp[symb].list
              local == IF ExplicitL(lst) = {} THEN 1 ELSE Max(ExplicitL(lst)) + 1
              mine == {k \in DOMAIN file["ecp_nucleus_index"] :
                          file["ecp_nucleus_index"][k] = i - 1}
              entry(k) == <<file["ecp_ang_mom"][k], file["ecp_coefficient"][k],
                            file["ecp_exponent"][k], file["ecp_power"][k]>>
              wanted(t) == <<IF lst[t[1]].l = -1 THEN local ELSE lst[t[1]].l,
                             lst[t[1]].rterms[t[2]][t[3]][2],
                             lst[t[1]].rterms[t[2]][t[3]][1],
                             (t[2] - 1) - 2>>
          IN /\ file["ecp_max_ang_mom_plus_1"][i] = local
             /\ file["ecp_z_core"][i] = SrcMol.ecp[symb].z_core
             /\ \A k \in mine : file["ecp_ang_mom"][k] \in 0..local
             /\ \A t \in EcpPairs(lst) : \E k \in mine : entry(k) = wanted(t)
             /\ Cardinality(mine) = Cardinality(EcpPairs(lst))
                                      + (IF ExplicitL(lst) = {} THEN 1 ELSE 0)
             /\ (ExplicitL(lst) = {}) <=> (\E k \in mine : entry(k) = <<0, 0, 1, 0>>)
             /\ ExplicitL(lst) = {} => entry(Max(mine)) = <<0, 0, 1, 0>>

C14_LocalChannelAboveOne ==
    /\ op = "to_trexio"
    /\ IsMole(src)
    /\ err = "none"
    /\ Has(file, "ecp_num")
    /\ file["ecp_max_ang_mom_plus_1"] = <<1, 2>>
    /\ file["ecp_ang_mom"] = <<1, 1, 0, 1, 2, 2, 0>>
    /\ file["ecp_power"] = <<-1, 1, 0, 0, -2, -1, 0>>

\* C15: when the structure carries ECP data for some nucleus, the export
\* completes, and a nucleus whose label is absent from the ECP table has no
\* ECP entry in the container.
C15_EcpOnSubsetOfNuclei ==
    (/\ op = "to_trexio"
     /\ IsMole(src)
     /\ ~src.pseudo
     /\ \E i \in DOMAIN src.atom : src.atom[i].symb \in DOMAIN src.ecp
     /\ \E i \in DOMAIN src.atom : src.atom[i].symb \notin DOMAIN src.ecp)
    => /\ err = "none"
       /\ Has(file, "ecp_num")
       /\ \A i \in DOMAIN src.atom :
             src.atom[i].symb \notin DOMAIN src.ecp
                => \A k \in DOMAIN file["ecp_nucleus_index"] :
                      file["ecp_nucleus_index"][k] # i - 1

\* the permutation the export applied, read back from the first stored
\* orbital: entry (ao, 1) of the coefficient matrix of RHFs is 100 * ao + 1
StoredOrder ==
    [r \in DOMAIN file["mo_coefficient"][1] |->
        (file["mo_coefficient"][1][r] \div 100) - 1]

\* a spherical restricted wavefunction was exported
SphericalExported ==
    /\ op = "to_trexio"
    /\ src.cls = "RHF"
    /\ ~src.mol.cart
    /\ err = "none"

\* the index of the first function of shell ib
ShellOffset(ib) == Sum([j \in 1..(ib - 1) |-> 2 * src.mol.bas[j].ang + 1])

\* the function indices ib's block of the stored permutation holds, less the offset
StoredBlock(ib) ==
    [k \in 1..(2 * src.mol.bas[ib].ang + 1) |-> StoredOrder[ShellOffset(ib) + k] - ShellOffset(ib)]

\* idx[::2] = l - arange(0, l+1); idx[1::2] = arange(l+1, 2l+1), at any l
Interleaved(l) ==
    [k \in 1..(2 * l + 1) |-> IF k % 2 = 1 THEN l - ((k - 1) \div 2) ELSE l + (k \div 2)]

\* C16 (as stated): in the spherical case the block of every shell with
\* angular momentum 0 or 1 is the identity on the shell's function indices
\* and is what the interleaving formula of l >= 2 yields at that l.
C16_LowBlocksIdentity ==
    SphericalExported
    => \A ib \in DOMAIN src.mol.bas :
          src.mol.bas[ib].ang \in {0, 1}
             => /\ StoredBlock(ib) = [k \in 1..(2 * src.mol.bas[ib].ang + 1) |-> k - 1]
                /\ StoredBlock(ib) = Interleaved(src.mol.bas[ib].ang)

\* C16 (amended): in the spherical case the block of a shell with l = 0 is
\* the identity and what the interleaving formula yields at 0; the block of a
\* shell with l = 1 is (offset+2, offset, offset+1), which is neither the
\* identity nor what the formula yields at 1; the block of a shell with
\* l >= 2 is what the formula yields.
C16_LowBlocksSpecialCased ==
    SphericalExported
    => \A ib \in DOMAIN src.mol.bas :
          LET l == src.mol.bas[ib].ang
          IN /\ l = 0 => StoredBlock(ib) = <<0>> /\ StoredBlock(ib) = Interleaved(0)
             /\ l = 1 => /\ StoredBlock(ib) = <<2, 0, 1>>
                         /\ StoredBlock(ib) # <<0, 1, 2>>
                         /\ StoredBlock(ib) # Interleaved(1)
             /\ l >= 2 => StoredBlock(ib) = Interleaved(l)

C16_PShellAfterSShell ==
    /\ SphericalExported
    /\ Len(src.mol.bas) = 2
    /\ src.mol.bas[1].ang = 0
    /\ src.mol.bas[2].ang = 1
    /\ StoredOrder = <<0, 3, 1, 2>>

====
